---- MODULE Spec2Model ----
(***************************************************************************)
(* Stock recalculation engine of bg-fixer-buddy.                           *)
(*                                                                         *)
(* stock_events is the event ledger, stock_entries the derived daily       *)
(* balance per (date, location, model, IMEI).  cascade_recalc_stock        *)
(* rebuilds the balances of a date range from the events, and the row      *)
(* trigger trigger_recalc_on_event_change runs it after every insert,      *)
(* update and delete of an event.                                          *)
(***************************************************************************)
EXTENDS Bags, FiniteSets, Integers, Sequences, TLC

\* ------------------------------------------------------------------ bounds
\* Calendar days are 1..MaxDay; CURRENT_DATE never passes MaxDay.
MaxDay == 3
\* At most MaxEvents INSERT statements are issued.
MaxEvents == 2
\* At most MaxEdits UPDATE and DELETE statements are issued.
MaxEdits == 1

\* ------------------------------------------------------------- value sets
\* SQL NULL of a text or uuid value (an absent filter).
NULL == "NULL"

Days == 1..MaxDay

Locations == {"L1", "L2"}

Models == {"M1"}

Imeis == {"I1"}

EventTypes ==
  {"masuk", "laku", "retur_in", "retur_out", "transfer_in", "transfer_out",
   "koreksi", "koreksi_pagi"}

\* The quantities submitted with each event type: a count, or a signed
\* delta for the two corrections.
QtysOf(t) ==
  CASE t = "masuk"        -> {1, 2}
    [] t = "koreksi"      -> {-1}
    [] t = "koreksi_pagi" -> {-1}
    [] OTHER              -> {1}

\* Every event row of the model's value sets.
AllEvents ==
  { e \in [date : Days, location_id : Locations, phone_model_id : Models,
           imei : Imeis, event_type : EventTypes, qty : {-1, 1, 2}] :
      e.qty \in QtysOf(e.event_type) }

\* The database sessions that can run a statement step by step.
Sessions == {1, 2}

\* A session that has not issued its statement.
Idle ==
  [pc |-> "idle", event |-> <<>>, call |-> <<>>, todo |-> {}, unit |-> <<>>,
   cur |-> 0, row |-> <<>>, days_count |-> 0, entries_count |-> 0]

\* The browsers that have the IncomingStockDialog open.
Clients == {1, 2}

\* The longest IMEI list a client fills in.
MaxImeis == 2

\* How often the scanner dialog is opened.
MaxOpens == 2

\* if (imei.length !== 15)
ImeiLength == 15

\* The runs of digits typed or scanned into an IMEI field: two of 15 digits,
\* one of 14, and none.
DigitRuns == {"I1", "I2", "S1", ""}

DigitsLength(digits) ==
  CASE digits = "" -> 0
    [] digits = "S1" -> ImeiLength - 1
    [] OTHER -> ImeiLength

\* The text of an IMEI field: blanks, a run of digits, blanks; the field
\* takes at most 15 characters (maxLength).
ImeiTexts ==
  { t \in [lead : 0..1, digits : DigitRuns, trail : 0..1] :
      /\ t.digits = "" => t.trail = 0
      /\ t.lead + DigitsLength(t.digits) + t.trail <= ImeiLength }

\* imei.length
Length(t) == t.lead + DigitsLength(t.digits) + t.trail

\* imei.trim()
Trim(t) == t.digits

\* The text t is the string s.
TextIs(t, s) == t.lead = 0 /\ t.trail = 0 /\ t.digits = s

\* The form values before anything is chosen, on the day date.
EmptyForm(date) ==
  [selectedDate |-> date, selectedLocation |-> "", selectedBrand |-> "",
   selectedModel |-> "", imeiList |-> << [lead |-> 0, digits |-> "",
                                          trail |-> 0] >>]

\* A dialog with no mutation pending and none made.
Closed(date) == [pc |-> "idle", form |-> EmptyForm(date), result |-> "none"]

\* The component after its first render with open = false: the effect has
\* called stopScanner, which found no scanner.
Mounted ==
  [open |-> FALSE, isScanning |-> FALSE, scannerRef |-> 0,
   lib |-> [k \in 1..MaxOpens |-> "none"], tasks |-> {}, opened |-> 0]

VARIABLES
  stock_events,   \* bag of event rows
  stock_entries,  \* set of daily balance rows
  today,          \* CURRENT_DATE
  created,        \* number of INSERT statements issued so far
  edited,         \* number of UPDATE and DELETE statements issued so far
  lastOp,         \* the statement that produced this state: its kind, the
                  \* calls of cascade_recalc_stock it made, whether it
                  \* succeeded, and the counts the last call returned
  inflight,       \* per session, the INSERT whose trigger is running
                  \* cascade_recalc_stock statement by statement: the
                  \* inserted row, the call, the loop variables
  dialog,         \* per client, the IncomingStockDialog: where its mutation
                  \* is, the form values it captured, how it ended
  scanner         \* the BarcodeScanner component: the open prop, its state
                  \* and ref, the Html5Qrcode instances, the pending awaits

vars ==
  <<stock_events, stock_entries, today, created, edited, lastOp, inflight,
    dialog, scanner>>

\* ------------------------------------------------- cascade_recalc_stock
\* A nullable integer is <<>> (SQL NULL) or <<n>>.
\* COALESCE(v, d)
Coalesce(v, d) == IF v = <<>> THEN d ELSE v[1]

\* The CASE expressions of the four aggregates.
IncomingOf(e) == IF e.event_type = "masuk" THEN e.qty ELSE 0

SoldOf(e) == IF e.event_type = "laku" THEN e.qty ELSE 0

ReturnsOf(e) == IF e.event_type = "retur_in" THEN e.qty ELSE 0

\* AdjustmentOf with the sign of the outgoing movements lost.
AdjustmentOfUnsigned(e) ==
  CASE e.event_type \in {"retur_out", "transfer_out"} -> e.qty
    [] e.event_type = "transfer_in" -> e.qty
    [] e.event_type = "koreksi" -> e.qty
    [] OTHER -> 0

AdjustmentOf(e) ==
  CASE e.event_type \in {"retur_out", "transfer_out"} -> 0 - e.qty
    [] e.event_type = "transfer_in" -> e.qty
    [] e.event_type = "koreksi" -> e.qty
    [] OTHER -> 0

\* The CASE expression summed into one column.
CaseOf(col, e) ==
  CASE col = "incoming"   -> IncomingOf(e)
    [] col = "sold"       -> SoldOf(e)
    [] col = "returns"    -> ReturnsOf(e)
    [] col = "adjustment" -> AdjustmentOf(e)

RECURSIVE SumOver(_, _, _)
\* SUM(CASE ...) of one column over the rows of the bag B that are in S.
SumOver(B, S, col) ==
  IF S = {} THEN 0
  ELSE LET e == CHOOSE x \in S : TRUE
       IN  CaseOf(col, e) * CopiesIn(e, B) + SumOver(B, S \ {e}, col)

\* The rows of stock_events of one day and one unit (the WHERE of the
\* aggregate query).
DayEvents(events, d, loc, model, imei) ==
  { e \in BagToSet(events) :
      /\ e.date = d
      /\ e.location_id = loc
      /\ e.phone_model_id = model
      /\ e.imei = imei }

\* SELECT COALESCE(SUM(CASE ...), 0) ... INTO v_incoming, v_sold, v_returns,
\* v_adjustment.
Aggregate(events, d, loc, model, imei) ==
  LET S == DayEvents(events, d, loc, model, imei)
  IN  [incoming   |-> SumOver(events, S, "incoming"),
       sold       |-> SumOver(events, S, "sold"),
       returns    |-> SumOver(events, S, "returns"),
       adjustment |-> SumOver(events, S, "adjustment")]

\* The rows of stock_entries with one key.
EntryRows(entries, d, loc, model, imei) ==
  { r \in entries :
      /\ r.date = d
      /\ r.location_id = loc
      /\ r.phone_model_id = model
      /\ r.imei = imei }

\* SELECT COALESCE(<col>, 0) INTO v FROM stock_entries WHERE <key> LIMIT 1:
\* NULL when no row matches (the columns are never NULL in a stored row).
SelectInto(entries, d, loc, model, imei, col) ==
  LET rs == EntryRows(entries, d, loc, model, imei)
  IN  IF rs = {} THEN <<>> ELSE <<(CHOOSE r \in rs : TRUE)[col]>>

\* PrevNightStock that never looks at the row stored for the first day.
PrevNightStockNoSeed(entries, cur, from, loc, model, imei) ==
  IF cur > from
  THEN SelectInto(entries, cur - 1, loc, model, imei, "night_stock")
  ELSE <<>>

\* PrevNightStock that looks one day too far back after the first day.
PrevNightStockTwoBack(entries, cur, from, loc, model, imei) ==
  IF cur > from
  THEN SelectInto(entries, cur - 2, loc, model, imei, "night_stock")
  ELSE SelectInto(entries, cur, loc, model, imei, "morning_stock")

\* PrevNightStock seeding the first day from the stored night stock.
PrevNightStockFromNight(entries, cur, from, loc, model, imei) ==
  IF cur > from
  THEN SelectInto(entries, cur - 1, loc, model, imei, "night_stock")
  ELSE SelectInto(entries, cur, loc, model, imei, "night_stock")

\* The seed of a day: the previous day's night stock, or on the first day of
\* the range the morning stock of the row already stored for that day.
PrevNightStock(entries, cur, from, loc, model, imei) ==
  IF cur > from
  THEN SelectInto(entries, cur - 1, loc, model, imei, "night_stock")
  ELSE SelectInto(entries, cur, loc, model, imei, "morning_stock")

MorningStock(entries, cur, from, loc, model, imei) ==
  Coalesce(PrevNightStock(entries, cur, from, loc, model, imei), 0)

\* NightStock with the sales added instead of subtracted.
NightStockSoldAdded(morning, incoming, sold, returns, adjustment) ==
  morning + incoming + returns + sold + adjustment

NightStock(morning, incoming, sold, returns, adjustment) ==
  morning + incoming + returns - sold + adjustment

\* The row computed for one day of one unit.
DayRow(entries, events, cur, from, loc, model, imei) ==
  LET m == MorningStock(entries, cur, from, loc, model, imei)
      a == Aggregate(events, cur, loc, model, imei)
  IN  [date |-> cur, location_id |-> loc, phone_model_id |-> model,
       imei |-> imei, morning_stock |-> m, incoming |-> a.incoming,
       sold |-> a.sold, returns |-> a.returns, adjustment |-> a.adjustment,
       night_stock |-> NightStock(m, a.incoming, a.sold, a.returns,
                                  a.adjustment)]

\* Upsert as a plain INSERT, with no conflict target.
UpsertAppend(entries, row) == entries \cup {row}

\* INSERT ... ON CONFLICT (date, location_id, phone_model_id, imei) DO UPDATE
Upsert(entries, row) ==
  (entries \ EntryRows(entries, row.date, row.location_id,
                       row.phone_model_id, row.imei)) \cup {row}

\* InvalidRange rejecting a one-day range too.
InvalidRangeStrict(from, to) == from >= to

\* IF p_from_date > p_to_date THEN RAISE EXCEPTION
InvalidRange(from, to) == from > to

\* AffectedUnits without the test for an empty IMEI.
AffectedUnitsAnyImei(events, from, to, p_location_id, p_phone_model_id, p_imei) ==
  { <<e.location_id, e.phone_model_id, e.imei>> :
      e \in { x \in BagToSet(events) :
                /\ x.date >= from /\ x.date <= to
                /\ (p_location_id = NULL \/ x.location_id = p_location_id)
                /\ (p_phone_model_id = NULL
                      \/ x.phone_model_id = p_phone_model_id)
                /\ (p_imei = NULL \/ (x.imei # NULL /\ x.imei = p_imei))
                /\ x.imei # NULL } }

\* SELECT DISTINCT location_id, phone_model_id, imei FROM stock_events WHERE ...
AffectedUnits(events, from, to, p_location_id, p_phone_model_id, p_imei) ==
  { <<e.location_id, e.phone_model_id, e.imei>> :
      e \in { x \in BagToSet(events) :
                /\ x.date >= from /\ x.date <= to
                /\ (p_location_id = NULL \/ x.location_id = p_location_id)
                /\ (p_phone_model_id = NULL
                      \/ x.phone_model_id = p_phone_model_id)
                /\ (p_imei = NULL \/ (x.imei # NULL /\ x.imei = p_imei))
                /\ x.imei # NULL /\ x.imei # "" } }

RECURSIVE DayLoop(_, _, _, _, _, _)
\* WHILE v_current_date <= p_to_date LOOP ... END LOOP for one unit; st holds
\* stock_entries and the two counters.
DayLoop(st, events, u, cur, from, to) ==
  IF cur > to THEN st
  ELSE DayLoop(
         [entries |-> Upsert(st.entries,
                             DayRow(st.entries, events, cur, from,
                                    u[1], u[2], u[3])),
          days_count |-> st.days_count + 1,
          entries_count |-> st.entries_count + 1],
         events, u, cur + 1, from, to)

RECURSIVE UnitLoop(_, _, _, _, _)
\* FOR v_location_id, v_phone_model_id, v_imei IN SELECT DISTINCT ... LOOP
UnitLoop(st, events, units, from, to) ==
  IF units = {} THEN st
  ELSE LET u == CHOOSE x \in units : TRUE
       IN  UnitLoop(DayLoop(st, events, u, from, from, to), events,
                    units \ {u}, from, to)

\* cascade_recalc_stock walking one day past p_to_date.
cascade_recalc_stock_OneMore(entries, events, c) ==
  UnitLoop([entries |-> entries, days_count |-> 0, entries_count |-> 0],
           events,
           AffectedUnits(events, c.from, c.to, c.location_id,
                         c.phone_model_id, c.imei),
           c.from, c.to + 1)

\* cascade_recalc_stock counting the days of the range once, not once per
\* unit.
cascade_recalc_stock_DaysOnce(entries, events, c) ==
  LET units == AffectedUnits(events, c.from, c.to, c.location_id,
                             c.phone_model_id, c.imei)
      st == UnitLoop([entries |-> entries, days_count |-> 0,
                      entries_count |-> 0], events, units, c.from, c.to)
  IN  [st EXCEPT !.days_count =
                   IF units = {} THEN 0 ELSE c.to - c.from + 1]

\* cascade_recalc_stock(p_from_date, p_to_date, p_location_id,
\* p_phone_model_id, p_imei) on a valid range: the new stock_entries and the
\* returned (recalculated_days, affected_entries).
cascade_recalc_stock(entries, events, c) ==
  UnitLoop([entries |-> entries, days_count |-> 0, entries_count |-> 0],
           events,
           AffectedUnits(events, c.from, c.to, c.location_id,
                         c.phone_model_id, c.imei),
           c.from, c.to)

\* ----------------------------------------------- trigger_cascade_recalc
\* TriggerArgs ending the range at the event's own date.
TriggerArgsOwnDate(tg_op, old, new, current_date) ==
  LET v == IF tg_op = "DELETE" THEN old ELSE new
  IN  [from |-> v.date, to |-> v.date, location_id |-> v.location_id,
       phone_model_id |-> v.phone_model_id, imei |-> v.imei]

\* The arguments the row trigger passes: OLD for DELETE, NEW otherwise.
TriggerArgs(tg_op, old, new, current_date) ==
  LET v == IF tg_op = "DELETE" THEN old ELSE new
  IN  [from |-> v.date, to |-> current_date, location_id |-> v.location_id,
       phone_model_id |-> v.phone_model_id, imei |-> v.imei]

\* One call of cascade_recalc_stock by the statement op on the event table
\* events1: an invalid range raises and the statement keeps nothing.
Call(op, c, events1) ==
  IF InvalidRange(c.from, c.to)
  THEN /\ UNCHANGED <<stock_events, stock_entries>>
       /\ lastOp' = [op |-> op, calls |-> <<c>>, ok |-> FALSE,
                     recalculated_days |-> 0, affected_entries |-> 0]
  ELSE LET st == cascade_recalc_stock(stock_entries, events1, c)
       IN  /\ stock_events' = events1
           /\ stock_entries' = st.entries
           /\ lastOp' = [op |-> op, calls |-> <<c>>, ok |-> TRUE,
                         recalculated_days |-> st.days_count,
                         affected_entries |-> st.entries_count]

\* A statement on stock_events with its AFTER ... FOR EACH ROW trigger: the
\* table is changed to events1, then the trigger recalculates.
trigger_cascade_recalc(tg_op, old, new, events1) ==
  Call(tg_op, TriggerArgs(tg_op, old, new, today), events1)

\* INSERT INTO stock_events
InsertEvent(e) ==
  /\ created < MaxEvents
  /\ trigger_cascade_recalc("INSERT", e, e, stock_events (+) SetToBag({e}))
  /\ created' = created + 1
  /\ UNCHANGED <<today, edited, inflight,
                 dialog, scanner>>

\* UPDATE stock_events SET ... WHERE id = ...
UpdateEvent(old, new) ==
  /\ BagIn(old, stock_events)
  /\ edited < MaxEdits
  /\ new # old
  /\ trigger_cascade_recalc("UPDATE", old, new,
            (stock_events (-) SetToBag({old})) (+) SetToBag({new}))
  /\ edited' = edited + 1
  /\ UNCHANGED <<today, created, inflight,
                 dialog, scanner>>

\* DELETE FROM stock_events WHERE id = ...
DeleteEvent(old) ==
  /\ BagIn(old, stock_events)
  /\ edited < MaxEdits
  /\ trigger_cascade_recalc("DELETE", old, old, stock_events (-) SetToBag({old}))
  /\ edited' = edited + 1
  /\ UNCHANGED <<today, created, inflight,
                 dialog, scanner>>

\* SELECT cascade_recalc_stock(...) by an operator, up to CURRENT_DATE at
\* the latest.
ManualRecalc(c) ==
  /\ c.to <= today
  /\ Call("RECALC", c, stock_events)
  /\ UNCHANGED <<today, created, edited, inflight,
                 dialog, scanner>>

\* RolloverUnits without the test for a row already stored for today.
RolloverUnitsUnguarded(entries, current_date) ==
  { <<r.location_id, r.phone_model_id, r.imei>> :
      r \in { x \in entries : x.date = current_date - 1 } }

\* RolloverUnits that rolls a unit only after two days of rows.
RolloverUnitsSettled(entries, current_date) ==
  { <<r.location_id, r.phone_model_id, r.imei>> :
      r \in { x \in entries :
                /\ x.date = current_date - 1
                /\ EntryRows(entries, current_date - 2, x.location_id,
                             x.phone_model_id, x.imei) # {}
                /\ EntryRows(entries, current_date, x.location_id,
                             x.phone_model_id, x.imei) = {} } }

\* ------------------------------------------------------------ rollover
\* The units that have a row for yesterday and none for today.
RolloverUnits(entries, current_date) ==
  { <<r.location_id, r.phone_model_id, r.imei>> :
      r \in { x \in entries :
                /\ x.date = current_date - 1
                /\ EntryRows(entries, current_date, x.location_id,
                             x.phone_model_id, x.imei) = {} } }

\* RolloverRow carrying yesterday's morning stock forward.
RolloverRowFromMorning(entries, current_date, u) ==
  LET y == Coalesce(SelectInto(entries, current_date - 1, u[1], u[2], u[3],
                               "morning_stock"), 0)
  IN  [date |-> current_date, location_id |-> u[1],
       phone_model_id |-> u[2], imei |-> u[3], morning_stock |-> y,
       incoming |-> 0, sold |-> 0, returns |-> 0, adjustment |-> 0,
       night_stock |-> y]

\* Today's placeholder row of a unit: morning stock = yesterday's night
\* stock, no movement.
RolloverRow(entries, current_date, u) ==
  LET y == Coalesce(SelectInto(entries, current_date - 1, u[1], u[2], u[3],
                               "night_stock"), 0)
  IN  [date |-> current_date, location_id |-> u[1],
       phone_model_id |-> u[2], imei |-> u[3], morning_stock |-> y,
       incoming |-> 0, sold |-> 0, returns |-> 0, adjustment |-> 0,
       night_stock |-> y]

\* check_and_rollover_if_needed()
Rollover ==
  /\ stock_entries' =
       stock_entries \cup
         { RolloverRow(stock_entries, today, u) :
             u \in RolloverUnits(stock_entries, today) }
  /\ lastOp' = [op |-> "ROLLOVER", calls |-> <<>>, ok |-> TRUE,
                recalculated_days |-> 0,
                affected_entries |->
                  Cardinality(RolloverUnits(stock_entries, today))]
  /\ UNCHANGED <<stock_events, today, created, edited, inflight,
                 dialog, scanner>>

\* Midnight: CURRENT_DATE moves to the next day.
AdvanceDay ==
  /\ today < MaxDay
  /\ today' = today + 1
  /\ lastOp' = [op |-> "TICK", calls |-> <<>>, ok |-> TRUE,
                recalculated_days |-> 0, affected_entries |-> 0]
  /\ UNCHANGED <<stock_events, stock_entries, created, edited, inflight,
                 dialog, scanner>>

\* ------------------------------------------- statements step by step
\* The next unit of the FOR loop of session p, or the end of the function:
\* RETURN QUERY and the end of the INSERT statement.
NextUnit(p, st) ==
  IF st.todo = {}
  THEN /\ inflight' = [inflight EXCEPT ![p] = [st EXCEPT !.pc = "done",
                                                        !.unit = <<>>]]
       /\ lastOp' = [op |-> "INSERT", calls |-> st.call, ok |-> TRUE,
                     recalculated_days |-> st.days_count,
                     affected_entries |-> st.entries_count]
  ELSE /\ \E u \in st.todo :
            inflight' = [inflight EXCEPT ![p] =
                           [st EXCEPT !.pc = "read", !.todo = st.todo \ {u},
                                      !.unit = u, !.cur = st.call[1].from]]
       /\ UNCHANGED lastOp

\* Session p inserts e; the trigger calls cascade_recalc_stock, which
\* validates the range and opens the FOR loop over the affected units.  A
\* range that is invalid raises and the statement keeps nothing.
BeginInsert(p, e) ==
  LET c == TriggerArgs("INSERT", e, e, today)
      events1 == stock_events (+) SetToBag({e})
  IN  /\ inflight[p].pc = "idle"
      /\ created < MaxEvents
      /\ ~InvalidRange(c.from, c.to)
      /\ stock_events' = events1
      /\ created' = created + 1
      /\ NextUnit(p, [Idle EXCEPT
                        !.event = <<e>>, !.call = <<c>>,
                        !.todo = AffectedUnits(events1, c.from, c.to,
                                               c.location_id,
                                               c.phone_model_id, c.imei)])
      /\ UNCHANGED <<stock_entries, today, edited,
                 dialog, scanner>>

\* Session p runs the SELECTs of one day: the seed and the aggregates.
ReadDay(p) ==
  LET st == inflight[p]
  IN  /\ st.pc = "read"
      /\ inflight' = [inflight EXCEPT ![p] =
           [st EXCEPT !.pc = "upsert",
                      !.row = <<DayRow(stock_entries, stock_events, st.cur,
                                       st.call[1].from, st.unit[1],
                                       st.unit[2], st.unit[3])>>]]
      /\ UNCHANGED <<stock_events, stock_entries, today, created, edited,
                     lastOp,
                 dialog, scanner>>

\* UpsertDay that leaves v_current_date where it is.
UpsertDayStuck(p) ==
  LET st == inflight[p]
  IN  /\ st.pc = "upsert"
      /\ stock_entries' = Upsert(stock_entries, st.row[1])
      /\ inflight' = [inflight EXCEPT ![p] =
           [st EXCEPT !.pc = "read", !.row = <<>>,
                      !.days_count = st.days_count + 1,
                      !.entries_count = st.entries_count + 1]]
      /\ UNCHANGED <<stock_events, today, created, edited, lastOp,
                 dialog, scanner>>

\* Session p runs the upsert of that day and moves to the next day, the
\* next unit or the end.
UpsertDay(p) ==
  LET st == inflight[p]
      st1 == [st EXCEPT !.row = <<>>, !.cur = st.cur + 1,
                        !.days_count = st.days_count + 1,
                        !.entries_count = st.entries_count + 1]
  IN  /\ st.pc = "upsert"
      /\ stock_entries' = Upsert(stock_entries, st.row[1])
      /\ IF st1.cur <= st.call[1].to
         THEN /\ inflight' = [inflight EXCEPT ![p] =
                                [st1 EXCEPT !.pc = "read"]]
              /\ UNCHANGED lastOp
         ELSE NextUnit(p, st1)
      /\ UNCHANGED <<stock_events, today, created, edited,
                 dialog, scanner>>

\* cascade_recalc_stock called by an operator while the upsert of unit u on
\* day d raises: the function has no handler, the error leaves it and the
\* statement keeps nothing, the rows upserted before it included.
FailingRecalc(c, u, d) ==
  /\ c.to <= today
  /\ ~InvalidRange(c.from, c.to)
  /\ u \in AffectedUnits(stock_events, c.from, c.to, c.location_id,
                         c.phone_model_id, c.imei)
  /\ d \in c.from..c.to
  /\ lastOp' = [op |-> "RECALC_FAILED", calls |-> <<c>>, ok |-> FALSE,
                recalculated_days |-> 0, affected_entries |-> 0]
  /\ UNCHANGED <<stock_events, stock_entries, today, created, edited,
                 inflight,
                 dialog, scanner>>

\* ------------------------------------------------ IncomingStockDialog
\* imeiList.filter(imei => imei.trim() !== "")
ValidImeis(f) == SelectSeq(f.imeiList, LAMBDA t : Trim(t) # "")

\* The message of the Error the validation throws, "none" when it passes.
ValidationError(f) ==
  LET v == ValidImeis(f)
  IN  IF f.selectedLocation = "" THEN "Lokasi wajib dipilih"
      ELSE IF f.selectedBrand = "" THEN "Merk wajib dipilih"
      ELSE IF f.selectedModel = "" THEN "Model HP wajib dipilih"
      ELSE IF Len(v) = 0 THEN "Harap masukkan minimal 1 IMEI"
      ELSE IF \E i \in 1..Len(v) : Length(v[i]) # ImeiLength
           THEN "IMEI harus 15 digit"
      ELSE IF \E i \in 1..Len(v) : \E j \in 1..Len(v) :
                j < i /\ v[j] = v[i]
           THEN "IMEI duplikat"
      ELSE "none"

\* supabase.from('stock_events').select('imei').in('imei', validImeis)
ExistingStock(events, f) ==
  LET v == ValidImeis(f)
  IN  { e \in BagToSet(events) : \E i \in 1..Len(v) : TextIs(v[i], e.imei) }

\* validImeis.map(imei => ({ date, imei: imei.trim(), ... }))
EventsToInsert(f) ==
  LET v == ValidImeis(f)
  IN  [ i \in 1..Len(v) |->
          [date |-> f.selectedDate, location_id |-> f.selectedLocation,
           phone_model_id |-> f.selectedModel, imei |-> Trim(v[i]),
           event_type |-> "masuk", qty |-> 1] ]

RECURSIVE BagOfRows(_)
\* The rows of one INSERT statement as a bag.
BagOfRows(rows) ==
  IF rows = <<>> THEN EmptyBag
  ELSE SetToBag({Head(rows)}) (+) BagOfRows(Tail(rows))

RECURSIVE RowTriggers(_, _, _, _)
\* The AFTER INSERT row triggers of one statement, fired once all its rows
\* are in the table events1: one recalculation per row.
RowTriggers(st, events1, rows, current_date) ==
  IF rows = <<>> THEN st
  ELSE RowTriggers(
         cascade_recalc_stock(st.entries, events1,
                              TriggerArgs("INSERT", Head(rows), Head(rows),
                                          current_date)),
         events1, Tail(rows), current_date)

\* The client presses "Rekap HP Datang" with the form filled in as f (the
\* calendar offers no day after today; the button is disabled while the
\* mutation is pending): the validation runs and, if it passes, the query
\* for IMEIs already stored is sent.
Submit(p, f) ==
  /\ dialog[p].pc = "idle"
  /\ f.selectedDate <= today
  /\ created + Cardinality({ q \in Clients : dialog[q].pc # "idle" })
       < MaxEvents
  /\ dialog' = [dialog EXCEPT ![p] =
                  IF ValidationError(f) = "none"
                  THEN [pc |-> "check", form |-> f, result |-> "pending"]
                  ELSE [pc |-> "idle", form |-> f,
                        result |-> ValidationError(f)]]
  /\ UNCHANGED <<stock_events, stock_entries, today, created, edited,
                 lastOp, inflight, scanner>>

\* The database answers the query: any row found ends the mutation with an
\* error, none lets it send the INSERT.
CheckExisting(p) ==
  /\ dialog[p].pc = "check"
  /\ dialog' = [dialog EXCEPT ![p] =
                  IF ExistingStock(stock_events, dialog[p].form) # {}
                  THEN [@ EXCEPT !.pc = "idle",
                                 !.result = "IMEI sudah terdaftar"]
                  ELSE [@ EXCEPT !.pc = "insert"]]
  /\ UNCHANGED <<stock_events, stock_entries, today, created, edited,
                 lastOp, inflight, scanner>>

\* The database runs the INSERT of all rows with their triggers; onSuccess
\* resets the form.
InsertEvents(p) ==
  LET rows == EventsToInsert(dialog[p].form)
      events1 == stock_events (+) BagOfRows(rows)
      st == RowTriggers([entries |-> stock_entries, days_count |-> 0,
                         entries_count |-> 0], events1, rows, today)
  IN  /\ dialog[p].pc = "insert"
      /\ stock_events' = events1
      /\ stock_entries' = st.entries
      /\ created' = created + 1
      /\ lastOp' = [op |-> "INSERT_ROWS",
                    calls |-> [i \in 1..Len(rows) |->
                                 TriggerArgs("INSERT", rows[i], rows[i],
                                             today)],
                    ok |-> TRUE, recalculated_days |-> st.days_count,
                    affected_entries |-> st.entries_count]
      /\ dialog' = [dialog EXCEPT ![p] =
                      [pc |-> "idle", form |-> EmptyForm(today),
                       result |-> "success"]]
      /\ UNCHANGED <<today, edited, inflight, scanner>>

\* ----------------------------------------------------- BarcodeScanner
\* scanner.lib[k] is the state of the Html5Qrcode object made by the k-th
\* call of startScanner: "none" before it exists, "starting" while start()
\* is pending, "scanning" with the camera on, "stopping" while stop() is
\* pending, "stopped" after. The library refuses stop() on an object that is
\* not scanning and clear() on one that is, by throwing.
Running == {"starting", "scanning", "stopping"}

\* stopScanner up to its first await: with a scanner in scannerRef it calls
\* stop(), which either is accepted and left pending or throws into the
\* catch; without one, and after the catch, it clears isScanning.
StopCall(s) ==
  IF s.scannerRef # 0 /\ s.lib[s.scannerRef] = "scanning"
  THEN [s EXCEPT !.lib[s.scannerRef] = "stopping",
                 !.tasks = @ \cup {[kind |-> "stop", id |-> s.scannerRef]}]
  ELSE [s EXCEPT !.isScanning = FALSE]

\* onOpenChange(false): the parent takes the open prop back, and the effect
\* on open runs its cleanup and its body, each a call of stopScanner. With
\* the prop already false nothing is rendered again.
Close(s) ==
  IF s.open THEN StopCall(StopCall([s EXCEPT !.open = FALSE])) ELSE s

\* The parent sets open: the effect runs its cleanup (stopScanner) and then
\* startScanner, which gives up at once where no camera is available and
\* else asks for the camera permission.
OpenDialog(camera) ==
  /\ ~scanner.open
  /\ scanner.opened < MaxOpens
  /\ LET k == scanner.opened + 1
         s1 == StopCall([scanner EXCEPT !.open = TRUE, !.opened = k])
     IN  scanner' =
           IF camera
           THEN [s1 EXCEPT !.tasks = @ \cup {[kind |-> "permission",
                                               id |-> k]}]
           ELSE Close(s1)
  /\ UNCHANGED <<stock_events, stock_entries, today, created, edited,
                 lastOp, inflight, dialog>>

\* The user dismisses the dialog.
CloseDialog ==
  /\ scanner.open
  /\ scanner' = Close(scanner)
  /\ UNCHANGED <<stock_events, stock_entries, today, created, edited,
                 lastOp, inflight, dialog>>

\* getUserMedia resolves for the k-th startScanner: isScanning is set, the
\* scanner object is made on the element "qr-reader" (which a dialog that
\* has been closed may or may not still hold: without it the constructor
\* throws into the outer catch), stored in scannerRef and started.
PermissionGranted(k, element) ==
  /\ [kind |-> "permission", id |-> k] \in scanner.tasks
  /\ scanner.open => element
  /\ LET s1 == [scanner EXCEPT
                  !.tasks = @ \ {[kind |-> "permission", id |-> k]},
                  !.isScanning = TRUE]
     IN  scanner' =
           IF element
           THEN [s1 EXCEPT !.scannerRef = k, !.lib[k] = "starting",
                           !.tasks = @ \cup {[kind |-> "start", id |-> k]}]
           ELSE Close(s1)
  /\ UNCHANGED <<stock_events, stock_entries, today, created, edited,
                 lastOp, inflight, dialog>>

\* getUserMedia rejects: toast, onOpenChange(false), return.
PermissionDenied(k) ==
  /\ [kind |-> "permission", id |-> k] \in scanner.tasks
  /\ scanner' = Close([scanner EXCEPT
                         !.tasks = @ \ {[kind |-> "permission", id |-> k]}])
  /\ UNCHANGED <<stock_events, stock_entries, today, created, edited,
                 lastOp, inflight, dialog>>

\* scanner.start resolves: the camera is on and startScanner returns.
StartResolved(k) ==
  /\ [kind |-> "start", id |-> k] \in scanner.tasks
  /\ scanner' = [scanner EXCEPT
                   !.tasks = @ \ {[kind |-> "start", id |-> k]},
                   !.lib[k] = "scanning"]
  /\ UNCHANGED <<stock_events, stock_entries, today, created, edited,
                 lastOp, inflight, dialog>>

\* scanner.start rejects: the outer catch calls onOpenChange(false).
StartRejected(k) ==
  /\ [kind |-> "start", id |-> k] \in scanner.tasks
  /\ scanner' = Close([scanner EXCEPT
                         !.tasks = @ \ {[kind |-> "start", id |-> k]},
                         !.lib[k] = "stopped"])
  /\ UNCHANGED <<stock_events, stock_entries, today, created, edited,
                 lastOp, inflight, dialog>>

\* stop() resolves for the k-th scanner, and stopScanner goes on with what
\* scannerRef holds by now: clear() on null or on a scanner that is scanning
\* throws into the catch, otherwise the ref is set to null; isScanning is
\* cleared either way.
StopResolved(k) ==
  /\ [kind |-> "stop", id |-> k] \in scanner.tasks
  /\ LET s1 == [scanner EXCEPT
                  !.tasks = @ \ {[kind |-> "stop", id |-> k]},
                  !.lib[k] = "stopped"]
         thrown == \/ s1.scannerRef = 0
                   \/ s1.lib[s1.scannerRef] \in {"scanning", "stopping"}
     IN  scanner' = [s1 EXCEPT
                       !.scannerRef = IF thrown THEN @ ELSE 0,
                       !.isScanning = FALSE]
  /\ UNCHANGED <<stock_events, stock_entries, today, created, edited,
                 lastOp, inflight, dialog>>

\* The k-th scanner decodes a barcode of 15 digits: onScanSuccess, then
\* onOpenChange(false).
Decoded(k) ==
  /\ scanner.lib[k] = "scanning"
  /\ scanner.open
  /\ scanner' = Close(scanner)
  /\ UNCHANGED <<stock_events, stock_entries, today, created, edited,
                 lastOp, inflight, dialog>>

\* ------------------------------------------------------------- inputs
\* The event rows inserted under Spec: stock in, sales and both corrections
\* at L1, stock in at L2.
EventInputs ==
  { e \in AllEvents :
      /\ e.event_type \in {"masuk", "laku", "koreksi", "koreksi_pagi"}
      /\ e.location_id = "L2" => e.event_type = "masuk"
      /\ e.qty \in {-1, 1} }

\* The event rows inserted under SpecKinds: every event type at L1, stock in
\* at L2.
KindInputs ==
  { e \in AllEvents : e.location_id = "L2" => e.event_type = "masuk" }

\* The edits made to an event row: another date or another location.
EditsOf(old) ==
  { e \in AllEvents :
      \/ e.date # old.date /\ e = [old EXCEPT !.date = e.date]
      \/ /\ e.location_id # old.location_id
         /\ e = [old EXCEPT !.location_id = e.location_id] }

\* The calls an operator makes: any range, no filter.
RecalcInputs ==
  { [from |-> f, to |-> t, location_id |-> NULL, phone_model_id |-> NULL,
     imei |-> NULL] : f \in Days, t \in Days }

\* The calls an operator makes under SpecKinds: any range, unfiltered or
\* for one location.
KindRecalcInputs ==
  { [from |-> f, to |-> t, location_id |-> l, phone_model_id |-> NULL,
     imei |-> NULL] : f \in Days, t \in Days, l \in {NULL, "L1"} }

Init ==
  /\ stock_events = EmptyBag
  /\ stock_entries = {}
  /\ today = 1
  /\ created = 0
  /\ edited = 0
  /\ lastOp = [op |-> "INIT", calls |-> <<>>, ok |-> TRUE,
               recalculated_days |-> 0, affected_entries |-> 0]
  /\ inflight = [p \in Sessions |-> Idle]
  /\ dialog = [p \in Clients |-> Closed(today)]
  /\ scanner = Mounted

Next ==
  \/ \E e \in EventInputs : InsertEvent(e)
  \/ \E old \in BagToSet(stock_events) : \E new \in EditsOf(old) :
       UpdateEvent(old, new)
  \/ \E old \in BagToSet(stock_events) : DeleteEvent(old)
  \/ \E c \in RecalcInputs : ManualRecalc(c)
  \/ Rollover
  \/ AdvanceDay

Spec == Init /\ [][Next]_vars

\* Every event type, without updates and deletes.
NextKinds ==
  \/ \E e \in KindInputs : InsertEvent(e)
  \/ \E c \in KindRecalcInputs : ManualRecalc(c)
  \/ Rollover
  \/ AdvanceDay

SpecKinds == Init /\ [][NextKinds]_vars

\* Units that differ in one component each, and two without a serial.
ScopeUnits ==
  { <<"L1", "M1", "I1">>, <<"L2", "M1", "I1">>, <<"L1", "M2", "I1">>,
    <<"L1", "M1", "I2">>, <<"L1", "M1", "">>, <<"L1", "M1", NULL>> }

\* The event rows inserted under SpecScope: stock in for each of ScopeUnits.
ScopeInputs ==
  { [date |-> d, location_id |-> u[1], phone_model_id |-> u[2],
     imei |-> u[3], event_type |-> "masuk", qty |-> 1] :
      d \in Days, u \in ScopeUnits }

\* The calls an operator makes under SpecScope: a valid range, unfiltered or
\* filtered by one location, one model or one IMEI.
ScopeRecalcInputs ==
  { c \in [from : Days, to : Days, location_id : {NULL, "L1"},
           phone_model_id : {NULL, "M1"}, imei : {NULL, "I1"}] :
      /\ c.from <= c.to
      /\ Cardinality({ f \in {c.location_id, c.phone_model_id, c.imei} :
                        f # NULL }) <= 1 }

\* Units with and without a serial, calls with one filter.
NextScope ==
  \/ \E e \in ScopeInputs : InsertEvent(e)
  \/ \E c \in ScopeRecalcInputs : ManualRecalc(c)
  \/ AdvanceDay

SpecScope == Init /\ [][NextScope]_vars

\* The event rows two sessions insert at the same time: stock in for one
\* unit.
RaceInputs ==
  { e \in AllEvents :
      e.location_id = "L1" /\ e.event_type = "masuk" /\ e.qty = 1 }

\* Two sessions, each inserting one event; the statements of their triggers
\* interleave.
NextRace ==
  \/ \E p \in Sessions : \E e \in RaceInputs : BeginInsert(p, e)
  \/ \E p \in Sessions : ReadDay(p)
  \/ \E p \in Sessions : UpsertDay(p)
  \/ AdvanceDay

SpecRace == Init /\ [][NextRace]_vars

\* SpecRace with every session that is inside the function taking its next
\* step eventually: the database runs a statement it has been given.
SpecRaceFair ==
  /\ SpecRace
  /\ \A p \in Sessions : WF_vars(ReadDay(p)) /\ WF_vars(UpsertDay(p))

\* The event rows inserted under SpecFault: stock in at both locations.
FaultInputs ==
  { e \in AllEvents : e.event_type = "masuk" /\ e.qty = 1 }

\* Inserts and manual recalculation, some of which fail in an upsert.
NextFault ==
  \/ \E e \in FaultInputs : InsertEvent(e)
  \/ \E c \in RecalcInputs : ManualRecalc(c)
  \/ \E c \in RecalcInputs : \E e \in BagToSet(stock_events) :
       FailingRecalc(c, <<e.location_id, e.phone_model_id, e.imei>>, e.date)
  \/ AdvanceDay

SpecFault == Init /\ [][NextFault]_vars

\* The event rows inserted under SpecRoll: stock in and sales at L1, stock
\* in at L2.
RollInputs ==
  { e \in AllEvents :
      /\ e.event_type \in {"masuk", "laku"}
      /\ e.location_id = "L2" => e.event_type = "masuk"
      /\ e.qty = 1 }

\* Days of inserts with or without the morning rollover.
NextRoll ==
  \/ \E e \in RollInputs : InsertEvent(e)
  \/ Rollover
  \/ AdvanceDay

SpecRoll == Init /\ [][NextRoll]_vars

\* The IMEI lists of up to MaxImeis fields over the texts T.
ImeiLists(T) == UNION { [1..n -> T] : n \in 1..MaxImeis }

\* The forms two clients submit at the same time: complete, with IMEIs of
\* 15 digits and nothing around them.
IntakeForms ==
  [selectedDate : Days, selectedLocation : {"L1"}, selectedBrand : {"B1"},
   selectedModel : {"M1"},
   imeiList : ImeiLists({ t \in ImeiTexts :
                           DigitsLength(t.digits) = ImeiLength })]

\* Two clients whose submissions interleave at the database.
NextIntake ==
  \/ \E p \in Clients : \E f \in IntakeForms : Submit(p, f)
  \/ \E p \in Clients : CheckExisting(p)
  \/ \E p \in Clients : InsertEvents(p)

SpecIntake == Init /\ [][NextIntake]_vars

\* The forms one client submits: any field unset, any text in the IMEI
\* fields.
FormInputs ==
  [selectedDate : Days, selectedLocation : {"", "L1"},
   selectedBrand : {"", "B1"}, selectedModel : {"", "M1"},
   imeiList : ImeiLists(ImeiTexts)]

\* One client submitting one form after the other.
NextForm ==
  \/ \E f \in FormInputs : Submit(1, f)
  \/ CheckExisting(1)
  \/ InsertEvents(1)

SpecForm == Init /\ [][NextForm]_vars

\* One scanner dialog, opened and closed while its asynchronous steps are
\* pending.
NextScanner ==
  \/ \E camera \in BOOLEAN : OpenDialog(camera)
  \/ CloseDialog
  \/ \E k \in 1..MaxOpens : \E element \in BOOLEAN :
       PermissionGranted(k, element)
  \/ \E k \in 1..MaxOpens : PermissionDenied(k)
  \/ \E k \in 1..MaxOpens : StartResolved(k)
  \/ \E k \in 1..MaxOpens : StartRejected(k)
  \/ \E k \in 1..MaxOpens : StopResolved(k)
  \/ \E k \in 1..MaxOpens : Decoded(k)

SpecScanner == Init /\ [][NextScanner]_vars

\* ------------------------------------------------------------- claims
\* The unit (location, model, IMEI) of an event or balance row.
UnitOf(r) == <<r.location_id, r.phone_model_id, r.imei>>

\* The balance rows of unit u dated d.
RowsAt(entries, d, u) == { r \in entries : r.date = d /\ UnitOf(r) = u }

\* The event rows of unit u dated d, of the types in T.
EventsAt(events, d, u, T) ==
  { e \in BagToSet(events) :
      e.date = d /\ UnitOf(e) = u /\ e.event_type \in T }

RECURSIVE QtySum(_, _)
\* The quantities of the rows of S added up, each counted as often as it is
\* in the bag B.
QtySum(B, S) ==
  IF S = {} THEN 0
  ELSE LET e == CHOOSE x \in S : TRUE
       IN  e.qty * CopiesIn(e, B) + QtySum(B, S \ {e})

\* The units a call c works on: those with an event in c's range that has a
\* non-empty IMEI and passes c's filters.
Touched(events, c) ==
  { UnitOf(e) :
      e \in { x \in BagToSet(events) :
                /\ x.date \in c.from..c.to
                /\ x.imei \notin {NULL, ""}
                /\ c.location_id \in {NULL, x.location_id}
                /\ c.phone_model_id \in {NULL, x.phone_model_id}
                /\ c.imei \in {NULL, x.imei} } }

\* The last statement called cascade_recalc_stock and it succeeded.
Recalculated == lastOp.calls # <<>> /\ lastOp.ok

\* C1 - Chain continuity: two balance rows of one unit on consecutive days
\* d, d+1 have closing[d] = opening[d+1], unless a koreksi_pagi event of the
\* unit is dated d+1.
C1_ChainContinuity ==
  \A r1 \in stock_entries : \A r2 \in stock_entries :
    ( /\ UnitOf(r1) = UnitOf(r2)
      /\ r2.date = r1.date + 1
      /\ EventsAt(stock_events, r2.date, UnitOf(r2), {"koreksi_pagi"}) = {} )
    => r1.night_stock = r2.morning_stock

\* C2 - Every stored balance row has
\* closing = opening + incoming + returned - sold + net_adjustment.
C2_ClosingFormula ==
  \A r \in stock_entries :
    r.night_stock =
      r.morning_stock + r.incoming + r.returns - r.sold + r.adjustment

\* A stored row with a sale and an adjustment on the same day.
C2_Witness ==
  \E r \in stock_entries :
    /\ r.sold > 0
    /\ r.adjustment # 0
    /\ r.night_stock # r.morning_stock

\* C3 - Idempotence: after a successful Recalculate, running the same call
\* again on the unchanged events leaves every balance row as it is.
C3_Idempotent ==
  Recalculated =>
    cascade_recalc_stock(stock_entries, stock_events,
                         lastOp.calls[1]).entries = stock_entries

\* A manual Recalculate over several days that wrote rows, one of them with
\* movement on a carried-over opening.
C3_Witness ==
  /\ lastOp.op = "RECALC"
  /\ lastOp.ok
  /\ lastOp.affected_entries >= 2
  /\ \E r \in stock_entries :
       /\ r.date \in lastOp.calls[1].from..lastOp.calls[1].to
       /\ r.morning_stock # 0
       /\ r.night_stock # r.morning_stock

\* C4 - Retroactive ripple: the insert of a masuk event of quantity q dated
\* d, with its recalculation of [d, today], raises the closing of every row
\* the unit has from d through today by exactly q and leaves the unit's rows
\* before d as they were.
C4_Ripple ==
  [][ \A e \in AllEvents :
        ( /\ e.event_type = "masuk"
          /\ lastOp'.op = "INSERT"
          /\ lastOp'.ok
          /\ stock_events' = stock_events (+) SetToBag({e}) )
        => \A r \in stock_entries :
             UnitOf(r) = UnitOf(e) =>
               IF r.date < e.date
               THEN r \in stock_entries'
               ELSE r.date <= today =>
                      \E r2 \in RowsAt(stock_entries', r.date, UnitOf(r)) :
                        r2.night_stock = r.night_stock + e.qty ]_vars

\* C5 - Every insert, update and delete of an event row calls Recalculate
\* exactly once, from the event's date to today, filtered by the event's
\* location, model and IMEI (the new row's for an update, the removed row's
\* for a delete).
C5_TriggerCall ==
  [][ /\ lastOp'.op \in {"INSERT", "UPDATE", "DELETE"} =>
           /\ Len(lastOp'.calls) = 1
           /\ lastOp'.calls[1].to = today
      /\ \A e \in BagToSet(stock_events') :
           ( /\ lastOp'.op = "INSERT"
             /\ stock_events' = stock_events (+) SetToBag({e}) )
           => lastOp'.calls =
                << [from |-> e.date, to |-> today,
                    location_id |-> e.location_id,
                    phone_model_id |-> e.phone_model_id,
                    imei |-> e.imei] >>
      /\ \A old \in BagToSet(stock_events) :
           \A new \in BagToSet(stock_events') :
             ( /\ lastOp'.op = "UPDATE"
               /\ new # old
               /\ stock_events' =
                    (stock_events (-) SetToBag({old})) (+) SetToBag({new}) )
             => lastOp'.calls =
                  << [from |-> new.date, to |-> today,
                      location_id |-> new.location_id,
                      phone_model_id |-> new.phone_model_id,
                      imei |-> new.imei] >>
      /\ \A old \in BagToSet(stock_events) :
           ( /\ lastOp'.op = "DELETE"
             /\ stock_events' = stock_events (-) SetToBag({old}) )
           => lastOp'.calls =
                << [from |-> old.date, to |-> today,
                    location_id |-> old.location_id,
                    phone_model_id |-> old.phone_model_id,
                    imei |-> old.imei] >> ]_vars

\* An event dated before today was updated and its one recalculation ran
\* through today.
C5_Witness ==
  /\ lastOp.op = "UPDATE"
  /\ lastOp.ok
  /\ Len(lastOp.calls) = 1
  /\ lastOp.calls[1].from < today
  /\ lastOp.calls[1].to = today

\* C6 - After a delete, every row of the deleted event's unit from its date
\* through today has the aggregates of the events that remain.
C6_DeleteReflected ==
  (lastOp.op = "DELETE" /\ lastOp.ok) =>
    LET c == lastOp.calls[1]
        u == <<c.location_id, c.phone_model_id, c.imei>>
    IN  \A d \in c.from..today : \A r \in RowsAt(stock_entries, d, u) :
          /\ r.incoming = QtySum(stock_events,
                                 EventsAt(stock_events, d, u, {"masuk"}))
          /\ r.sold = QtySum(stock_events,
                             EventsAt(stock_events, d, u, {"laku"}))
          /\ r.returns = QtySum(stock_events,
                                EventsAt(stock_events, d, u, {"retur_in"}))

\* C7 - Morning correction: the opening written for a day after the first
\* of the range is the previous day's closing plus the quantities of the
\* day's koreksi_pagi events.
C7_MorningCorrection ==
  Recalculated =>
    LET c == lastOp.calls[1]
    IN  \A u \in Touched(stock_events, c) : \A d \in (c.from + 1)..c.to :
          \A r \in RowsAt(stock_entries, d, u) :
            \A p \in RowsAt(stock_entries, d - 1, u) :
              r.morning_stock =
                p.night_stock
                  + QtySum(stock_events,
                           EventsAt(stock_events, d, u, {"koreksi_pagi"}))

\* C8 - Aggregation by kind: the row of every unit and day a Recalculate
\* worked on has incoming = sum of masuk, sold = sum of laku, returned = sum
\* of retur_in and net_adjustment = transfer_in + koreksi - retur_out -
\* transfer_out, over the events of that unit and day only.
C8_Aggregates ==
  Recalculated =>
    LET c == lastOp.calls[1]
    IN  \A u \in Touched(stock_events, c) : \A d \in c.from..c.to :
          /\ RowsAt(stock_entries, d, u) # {}
          /\ \A r \in RowsAt(stock_entries, d, u) :
               /\ r.incoming =
                    QtySum(stock_events,
                           EventsAt(stock_events, d, u, {"masuk"}))
               /\ r.sold =
                    QtySum(stock_events,
                           EventsAt(stock_events, d, u, {"laku"}))
               /\ r.returns =
                    QtySum(stock_events,
                           EventsAt(stock_events, d, u, {"retur_in"}))
               /\ r.adjustment =
                    QtySum(stock_events,
                           EventsAt(stock_events, d, u,
                                    {"transfer_in", "koreksi"}))
                    - QtySum(stock_events,
                             EventsAt(stock_events, d, u,
                                      {"retur_out", "transfer_out"}))

\* A Recalculate over two units on one day: an outgoing movement at one,
\* stock of quantity 2 coming in at the other.
C8_Witness ==
  /\ Recalculated
  /\ \E r1 \in stock_entries : \E r2 \in stock_entries :
       /\ r1.date = r2.date
       /\ r1.date \in lastOp.calls[1].from..lastOp.calls[1].to
       /\ r1.location_id # r2.location_id
       /\ r1.adjustment < 0
       /\ r1.incoming = 0
       /\ r2.incoming = 2
       /\ r2.adjustment = 0

\* C9 - Opening of the first day of the range, for every unit worked on:
\* the opening already stored for that day if the row exists, otherwise the
\* closing of the unit's row of the day before, and 0 if that is missing too.
C9_FirstDayOpening ==
  [][ (lastOp'.calls # <<>> /\ lastOp'.ok) =>
        LET c == lastOp'.calls[1]
        IN  \A u \in Touched(stock_events', c) :
              \A r \in RowsAt(stock_entries', c.from, u) :
                LET stored == RowsAt(stock_entries, c.from, u)
                    before == RowsAt(stock_entries, c.from - 1, u)
                IN  /\ \A s \in stored : r.morning_stock = s.morning_stock
                    /\ stored = {} =>
                         /\ \A p \in before :
                              r.morning_stock = p.night_stock
                         /\ before = {} => r.morning_stock = 0 ]_vars

\* C10 - InvalidRange: a Recalculate with fromDate > toDate fails and leaves
\* both stores as they were; with fromDate = toDate it does not fail.
C10_InvalidRange ==
  [][ lastOp'.calls # <<>> =>
        LET c == lastOp'.calls[1]
        IN  /\ c.from > c.to =>
                 /\ ~lastOp'.ok
                 /\ stock_entries' = stock_entries
                 /\ stock_events' = stock_events
            /\ c.from = c.to => lastOp'.ok ]_vars

\* A manual Recalculate was rejected while both stores held rows.
C10_Witness ==
  /\ lastOp.op = "RECALC"
  /\ ~lastOp.ok
  /\ lastOp.calls[1].from > lastOp.calls[1].to
  /\ stock_entries # {}
  /\ stock_events # EmptyBag

\* The rows of the units in U.
RowsOf(entries, U) == { r \in entries : UnitOf(r) \in U }

\* C11 - Affected-unit scoping: a Recalculate inserts or overwrites rows
\* only of units that have an event in [from, to] with a non-empty IMEI
\* passing every given filter, only on days of the range, and what it writes
\* does not depend on the rows of any other unit.
C11_Scoping ==
  [][ (lastOp'.calls # <<>> /\ lastOp'.ok) =>
        LET c == lastOp'.calls[1]
            T == Touched(stock_events', c)
        IN  /\ \A r \in (stock_entries' \ stock_entries)
                          \cup (stock_entries \ stock_entries') :
                 UnitOf(r) \in T /\ r.date \in c.from..c.to
            /\ RowsOf(stock_entries', T) =
                 RowsOf(cascade_recalc_stock(RowsOf(stock_entries, T),
                                             stock_events', c).entries, T)
      ]_vars

\* A location-filtered Recalculate wrote rows while the events in its range
\* included one at another location and one without a serial.
C11_Witness ==
  /\ lastOp.op = "RECALC"
  /\ lastOp.ok
  /\ lastOp.calls[1].location_id = "L1"
  /\ lastOp.affected_entries > 0
  /\ \E e1 \in BagToSet(stock_events) : \E e2 \in BagToSet(stock_events) :
       /\ e1.imei = "I1" /\ e1.location_id = "L1"
       /\ e2.imei \in {"", NULL} \/ e2.location_id = "L2"
       /\ e1.date \in lastOp.calls[1].from..lastOp.calls[1].to
       /\ e2.date \in lastOp.calls[1].from..lastOp.calls[1].to

\* The units that have a balance row.
UnitsStored(entries) == { UnitOf(r) : r \in entries }

\* Row r carries the sums of the events of its unit and day.
SumsMatch(r, events) ==
  LET u == UnitOf(r)
  IN  /\ r.incoming = QtySum(events, EventsAt(events, r.date, u, {"masuk"}))
      /\ r.sold = QtySum(events, EventsAt(events, r.date, u, {"laku"}))
      /\ r.returns =
           QtySum(events, EventsAt(events, r.date, u, {"retur_in"}))
      /\ r.adjustment =
           QtySum(events, EventsAt(events, r.date, u,
                                   {"transfer_in", "koreksi"}))
           - QtySum(events, EventsAt(events, r.date, u,
                                     {"retur_out", "transfer_out"}))

\* Row r is a placeholder: no movement, closing = opening.
Placeholder(r) ==
  /\ r.incoming = 0 /\ r.sold = 0 /\ r.returns = 0 /\ r.adjustment = 0
  /\ r.night_stock = r.morning_stock

\* C12 - Rollover content: RolloverIfNeeded(today) creates, for every unit
\* with a row for yesterday and none for today, a row for today with
\* opening = yesterday's closing, all aggregates 0 and closing = opening; it
\* creates no row for any other unit and changes no existing row.
C12_RolloverContent ==
  [][ lastOp'.op = "ROLLOVER" =>
        LET due == { u \in UnitsStored(stock_entries) :
                       /\ RowsAt(stock_entries, today - 1, u) # {}
                       /\ RowsAt(stock_entries, today, u) = {} }
        IN  /\ stock_entries \subseteq stock_entries'
            /\ \A r \in stock_entries' \ stock_entries :
                 r.date = today /\ UnitOf(r) \in due
            /\ \A u \in due :
                 \E y \in RowsAt(stock_entries, today - 1, u) :
                   RowsAt(stock_entries', today, u) =
                     { [date |-> today, location_id |-> u[1],
                        phone_model_id |-> u[2], imei |-> u[3],
                        morning_stock |-> y.night_stock, incoming |-> 0,
                        sold |-> 0, returns |-> 0, adjustment |-> 0,
                        night_stock |-> y.night_stock] }
      ]_vars

\* A rollover created today's row of one unit from a day that had movement,
\* while another unit already had its row for today.
C12_Witness ==
  /\ lastOp.op = "ROLLOVER"
  /\ lastOp.affected_entries = 1
  /\ \E r \in stock_entries : \E y \in stock_entries : \E o \in stock_entries :
       /\ r.date = today /\ Placeholder(r) /\ r.morning_stock # 0
       /\ y.date = today - 1 /\ UnitOf(y) = UnitOf(r)
       /\ y.morning_stock # y.night_stock
       /\ o.date = today /\ UnitOf(o) # UnitOf(r)

\* C13 - Rollover idempotence: after RolloverIfNeeded(today) has run, a
\* further call on the same day with no event recorded in between finds no
\* unit to roll and leaves the rows as they are.
C13_RolloverIdempotent ==
  lastOp.op = "ROLLOVER" =>
    /\ Cardinality(RolloverUnits(stock_entries, today)) = 0
    /\ stock_entries \cup
         { RolloverRow(stock_entries, today, u) :
             u \in RolloverUnits(stock_entries, today) } = stock_entries

\* A rollover that wrote nothing because an earlier one had already created
\* today's placeholder.
C13_Witness ==
  /\ lastOp.op = "ROLLOVER"
  /\ lastOp.affected_entries = 0
  /\ \E r \in stock_entries :
       /\ r.date = today /\ Placeholder(r) /\ r.morning_stock # 0
       /\ EventsAt(stock_events, today, UnitOf(r), EventTypes) = {}
       /\ RowsAt(stock_entries, today - 1, UnitOf(r)) # {}

\* C14 - Rollover placeholder then event: when a unit has a placeholder row
\* for day d with opening = closing[d-1] and an event is then recorded for
\* day d, the triggered recalculation of [d, today] overwrites the row
\* keeping opening = closing[d-1], with the aggregates of day d's events and
\* the closing by the formula, and every later day up to today is recomputed
\* from the day before it.  (Units with a koreksi_pagi event in [d, today]
\* are left to C7.)
C14_PlaceholderThenEvent ==
  [][ (lastOp'.op = "INSERT" /\ lastOp'.ok) =>
        LET c == lastOp'.calls[1]
            d == c.from
            u == <<c.location_id, c.phone_model_id, c.imei>>
        IN  \A r \in RowsAt(stock_entries, d, u) :
            \A p \in RowsAt(stock_entries, d - 1, u) :
              ( /\ Placeholder(r)
                /\ r.morning_stock = p.night_stock
                /\ \A k \in d..c.to :
                     EventsAt(stock_events', k, u, {"koreksi_pagi"}) = {} )
              => \A k \in d..c.to :
                   /\ Cardinality(RowsAt(stock_entries', k, u)) = 1
                   /\ \A r2 \in RowsAt(stock_entries', k, u) :
                        /\ SumsMatch(r2, stock_events')
                        /\ r2.night_stock =
                             r2.morning_stock + r2.incoming + r2.returns
                             - r2.sold + r2.adjustment
                        /\ \A q \in RowsAt(stock_entries', k - 1, u) :
                             r2.morning_stock = q.night_stock
                        /\ k = d => r2.morning_stock = p.night_stock
      ]_vars

\* A sale recorded for a day whose row opened with yesterday's closing of 1:
\* the row keeps the opening 1, has sold = 1 and closes at 0.
C14_Witness ==
  /\ lastOp.op = "INSERT"
  /\ lastOp.ok
  /\ LET c == lastOp.calls[1]
         u == <<c.location_id, c.phone_model_id, c.imei>>
     IN  /\ c.from > 1
         /\ \E r \in RowsAt(stock_entries, c.from, u) :
            \E p \in RowsAt(stock_entries, c.from - 1, u) :
              /\ p.night_stock = 1
              /\ r.morning_stock = 1 /\ r.sold = 1 /\ r.night_stock = 0

OneAfterTheOther(a, b) ==
  LET ea == SetToBag({inflight[a].event[1]})
      eb == SetToBag({inflight[b].event[1]})
      s1 == cascade_recalc_stock({}, ea, inflight[a].call[1]).entries
  IN  cascade_recalc_stock(s1, ea (+) eb, inflight[b].call[1]).entries

\* C16 - Re-entrant recalculation converges: when two recalculations of the
\* same unit over overlapping ranges have interleaved their per-day reads
\* and upserts and both have ended, the rows are those left by running the
\* two one after the other, in one order or the other.
C16_RaceConverges ==
  ( /\ \A p \in Sessions : inflight[p].pc = "done"
    /\ inflight[1].call[1].from <= inflight[2].call[1].to
    /\ inflight[2].call[1].from <= inflight[1].call[1].to )
  => stock_entries \in {OneAfterTheOther(1, 2), OneAfterTheOther(2, 1)}

\* C17 - Per-unit failure isolation: when the upsert of one unit fails
\* during a recalculation, every other affected unit is still processed and
\* its rows for the days of the range are stored.
C17_FailureIsolation ==
  [][ lastOp'.op = "RECALC_FAILED" =>
        LET c == lastOp'.calls[1]
            T == Touched(stock_events, c)
        IN  \E uf \in T :
              \A u \in T \ {uf} : \A d \in c.from..c.to :
                /\ RowsAt(stock_entries', d, u) # {}
                /\ \A r \in RowsAt(stock_entries', d, u) :
                     SumsMatch(r, stock_events')
      ]_vars

\* The balance rows of unit u dated d - 1 or d.
Lookback(entries, u, d) ==
  { r \in entries : UnitOf(r) = u /\ r.date \in {d - 1, d} }

\* The event rows of unit u dated d, as a bag.
OwnDayEvents(events, u, d) ==
  [ e \in { x \in BagToSet(events) : UnitOf(x) = u /\ x.date = d }
      |-> CopiesIn(e, events) ]

\* C18 - One-day lookback: the row a Recalculate stores for unit u and day d
\* is determined by u's balance rows dated d - 1 and d and u's events dated
\* d alone: computing it from a database that holds nothing else gives the
\* same row, so no earlier balance row and no other event is read.
C18_OneDayLookback ==
  Recalculated =>
    LET c == lastOp.calls[1]
    IN  \A u \in Touched(stock_events, c) : \A d \in c.from..c.to :
          RowsAt(stock_entries, d, u) =
            { DayRow(Lookback(stock_entries, u, d),
                     OwnDayEvents(stock_events, u, d), d, c.from,
                     u[1], u[2], u[3]) }

\* A Recalculate stored a row for a day d while the unit had a row older
\* than d - 1 with another closing than the opening of day d.
C18_Witness ==
  /\ Recalculated
  /\ LET c == lastOp.calls[1]
     IN  \E u \in Touched(stock_events, c) : \E d \in c.from..c.to :
         \E r \in RowsAt(stock_entries, d, u) : \E o \in stock_entries :
           /\ UnitOf(o) = u /\ o.date < d - 1
           /\ o.night_stock # 0
           /\ o.night_stock # r.morning_stock

\* C19 - Return value: a Recalculate returns daysProcessed = (number of
\* affected units) x (toDate - fromDate + 1) and entriesWritten = the number
\* of rows it upserted; the two are equal, and both are 0 when no unit is
\* affected.
C19_ReturnValue ==
  Recalculated =>
    LET c == lastOp.calls[1]
        T == Touched(stock_events, c)
        n == Cardinality(T) * (c.to - c.from + 1)
    IN  /\ lastOp.recalculated_days = n
        /\ lastOp.affected_entries = n
        /\ Cardinality({ r \in stock_entries :
                           UnitOf(r) \in T /\ r.date \in c.from..c.to }) = n

\* A Recalculate over two units and two days returned (4, 4).
C19_Witness ==
  /\ Recalculated
  /\ lastOp.calls[1].to = lastOp.calls[1].from + 1
  /\ Cardinality(Touched(stock_events, lastOp.calls[1])) = 2
  /\ lastOp.recalculated_days = 4
  /\ lastOp.affected_entries = 4

\* C20 - Update moves the change: after an UPDATE that changes an event's
\* date or unit, the rows of the previous unit from the previous date to
\* today carry the sums of the events left there, and the rows of the new
\* unit from the new date to today exist and carry the sums with the event.
C20_UpdateMoves ==
  [][ (lastOp'.op = "UPDATE" /\ lastOp'.ok) =>
        \A old \in BagToSet(stock_events) :
          \A new \in BagToSet(stock_events') :
            ( /\ new # old
              /\ stock_events' =
                   (stock_events (-) SetToBag({old})) (+) SetToBag({new}) )
            => /\ \A d \in old.date..today :
                    \A r \in RowsAt(stock_entries', d, UnitOf(old)) :
                      SumsMatch(r, stock_events')
               /\ \A d \in new.date..today :
                    /\ RowsAt(stock_entries', d, UnitOf(new)) # {}
                    /\ \A r \in RowsAt(stock_entries', d, UnitOf(new)) :
                         SumsMatch(r, stock_events')
      ]_vars

\* C21 - Dense rows: after a successful Recalculate every affected unit has
\* exactly one row for every day of [from, to]; on a day without an event of
\* the unit the four aggregates are 0 and closing = opening; and the store
\* never holds two rows with the same (date, location, model, IMEI).
C21_DenseRows ==
  /\ \A r1 \in stock_entries : \A r2 \in stock_entries :
       (r1.date = r2.date /\ UnitOf(r1) = UnitOf(r2)) => r1 = r2
  /\ Recalculated =>
       LET c == lastOp.calls[1]
       IN  \A u \in Touched(stock_events, c) : \A d \in c.from..c.to :
             /\ Cardinality(RowsAt(stock_entries, d, u)) = 1
             /\ EventsAt(stock_events, d, u, EventTypes) = {} =>
                  \A r \in RowsAt(stock_entries, d, u) : Placeholder(r)

\* A Recalculate over several days stored a row with stock on a day without
\* an event, and a row it had stored before was overwritten by one with
\* other values.
C21_Witness ==
  /\ Recalculated
  /\ LET c == lastOp.calls[1]
     IN  \E u \in Touched(stock_events, c) : \E d \in c.from..c.to :
           /\ EventsAt(stock_events, d, u, EventTypes) = {}
           /\ \E r \in RowsAt(stock_entries, d, u) : r.morning_stock # 0
           /\ \E r \in RowsAt(stock_entries, c.from, u) :
                r.incoming + r.sold > 1

\* C22 - Frame of Recalculate: a call of Recalculate leaves every balance
\* row dated before from or after to as it was, for every unit, and a call
\* made by an operator leaves the event store as it was (a trigger's call
\* leaves it as the statement made it: one row more, or less, or replaced).
C22_Frame ==
  [][ (lastOp'.calls # <<>> /\ lastOp'.ok) =>
        LET c == lastOp'.calls[1]
        IN  /\ { r \in stock_entries' : r.date \notin c.from..c.to } =
                 { r \in stock_entries : r.date \notin c.from..c.to }
            /\ lastOp'.op = "RECALC" => stock_events' = stock_events
            /\ lastOp'.op = "INSERT" =>
                 \E e \in BagToSet(stock_events') :
                   stock_events' = stock_events (+) SetToBag({e})
      ]_vars

\* An operator's Recalculate of one day wrote that day's row of a unit that
\* has rows on the day before and the day after.
C22_Witness ==
  /\ lastOp.op = "RECALC"
  /\ lastOp.ok
  /\ lastOp.affected_entries > 0
  /\ LET c == lastOp.calls[1]
     IN  /\ c.from = c.to
         /\ \E u \in Touched(stock_events, c) :
              /\ RowsAt(stock_entries, c.from - 1, u) # {}
              /\ RowsAt(stock_entries, c.to + 1, u) # {}

\* C23 - Termination: every Recalculate on a valid range ends, and on the
\* way it visits, for each affected unit, the days from, from + 1, ..., to
\* once each in ascending order: every upsert is for the day of the loop
\* variable, the next day read is the day after it, a unit is left only
\* after day to, and the count of days at the end is units x days.
C23_Terminates ==
  /\ \A p \in Sessions :
       (inflight[p].pc \in {"read", "upsert"}) ~> (inflight[p].pc = "done")
  /\ [][ \A p \in Sessions :
           LET a == inflight[p]
               b == inflight'[p]
           IN  /\ (a.pc = "idle" /\ b.pc = "read") =>
                    b.cur = b.call[1].from
               /\ (a.pc = "read" /\ b.pc = "upsert") =>
                    /\ b.cur = a.cur
                    /\ b.row[1].date = a.cur
                    /\ a.cur \in a.call[1].from..a.call[1].to
               /\ (a.pc = "upsert" /\ b.pc = "read") =>
                    IF b.unit = a.unit
                    THEN b.cur = a.cur + 1
                    ELSE a.cur = a.call[1].to /\ b.cur = b.call[1].from
               /\ (a.pc = "upsert" /\ b.pc = "done") =>
                    /\ a.cur = a.call[1].to
                    /\ b.days_count =
                         Cardinality(Touched(SetToBag({a.event[1]}),
                                             a.call[1]))
                         * (a.call[1].to - a.call[1].from + 1)
      ]_vars

\* A recalculation of three days has ended after three upserts.
C23_Witness ==
  \E p \in Sessions :
    /\ inflight[p].pc = "done"
    /\ inflight[p].call[1].to = inflight[p].call[1].from + 2
    /\ inflight[p].days_count = 3

\* C24 - IMEI uniqueness at intake: whatever the interleaving of the
\* clients' submissions, no IMEI has more than one masuk event in
\* stock_events.
C24_UniqueIntake ==
  \A e1 \in BagToSet(stock_events) : \A e2 \in BagToSet(stock_events) :
    ( /\ e1.event_type = "masuk"
      /\ e2.event_type = "masuk"
      /\ e1.imei = e2.imei )
    => e1 = e2 /\ CopiesIn(e1, stock_events) = 1

\* The IMEI of a field of the form: the value the dialog stores for it.
FormImeis(f) ==
  { Trim(f.imeiList[i]) : i \in { j \in 1..Len(f.imeiList) :
                                    Trim(f.imeiList[j]) # "" } }

\* A form the validation has to turn down: a choice missing, no field that
\* is not blank, such a field not 15 characters long, or two such fields
\* with the same text.
Invalid(f) ==
  LET filled == { j \in 1..Len(f.imeiList) : Trim(f.imeiList[j]) # "" }
  IN  \/ f.selectedLocation = ""
      \/ f.selectedBrand = ""
      \/ f.selectedModel = ""
      \/ filled = {}
      \/ \E j \in filled : Length(f.imeiList[j]) # ImeiLength
      \/ \E j \in filled : \E k \in filled :
           j # k /\ f.imeiList[j] = f.imeiList[k]

\* The masuk event of qty 1 the form f asks for the IMEI i.
MasukOf(f, i) ==
  [date |-> f.selectedDate, location_id |-> f.selectedLocation,
   phone_model_id |-> f.selectedModel, imei |-> i, event_type |-> "masuk",
   qty |-> 1]

\* C26 - All-or-nothing submission: a form with a choice missing, no IMEI,
\* an IMEI field not 15 characters long or the same field twice is turned
\* down with an error; so is a form with an IMEI that stock_events already
\* holds; no event is inserted for either; any other form inserts exactly
\* one masuk event of qty 1 per field that is not blank, with the selected
\* date, location and model, and no other event.
C26_AllOrNothing ==
  [][ \A p \in Clients :
        LET a == dialog[p]
            b == dialog'[p]
        IN  /\ (a.pc = "idle" /\ b # a) =>
                 /\ stock_events' = stock_events
                 /\ IF Invalid(b.form)
                    THEN b.pc = "idle" /\ b.result \notin {"none", "success"}
                    ELSE b.pc = "check"
            /\ (a.pc = "check" /\ b # a) =>
                 /\ stock_events' = stock_events
                 /\ IF \E e \in BagToSet(stock_events) :
                         e.imei \in FormImeis(a.form)
                    THEN b.pc = "idle" /\ b.result \notin {"none", "success"}
                    ELSE b.pc = "insert"
            /\ (a.pc = "insert" /\ b # a) =>
                 /\ b.result = "success"
                 /\ \A e \in BagToSet(stock_events') :
                      CopiesIn(e, stock_events') - CopiesIn(e, stock_events)
                        = Cardinality({ j \in 1..Len(a.form.imeiList) :
                                          /\ Trim(a.form.imeiList[j]) # ""
                                          /\ e = MasukOf(a.form,
                                                  Trim(a.form.imeiList[j])) })
                 /\ \A i \in FormImeis(a.form) :
                      BagIn(MasukOf(a.form, i), stock_events')
                 /\ \A e \in BagToSet(stock_events) :
                      BagIn(e, stock_events')
      ]_vars

\* C25 - Scanner open/close race: once the dialog is closed and no step of
\* startScanner or stopScanner is pending any more, no scanner is running,
\* scannerRef is null and isScanning is false.
C25_ClosedMeansStopped ==
  (~scanner.open /\ scanner.tasks = {}) =>
    /\ \A k \in 1..MaxOpens : scanner.lib[k] \notin Running
    /\ scanner.scannerRef = 0
    /\ ~scanner.isScanning

====
